---- MODULE Spec2Model ----
(***************************************************************************)
(* A model of server.js: the restaurant ordering backend.                  *)
(*                                                                         *)
(* Two collections of the document store (MenuItem, Order), the Basic      *)
(* credential gate, the six API handlers and the startup sequence.         *)
(*                                                                         *)
(* Reading guide: JavaScript strings are sequences of one-character        *)
(* strings; JavaScript values are records [t, n, s] (type tag, number,     *)
(* string); a handler whose body awaits exactly one store operation is one *)
(* action (its synchronous prefix reads only the request, its suffix only  *)
(* the operation's result); the seed-menu handler awaits two store         *)
(* operations and is two actions.                                          *)
(***************************************************************************)
EXTENDS Integers, Sequences, FiniteSets, TLC

(***************************************************************************)
(* Characters and strings                                                  *)
(***************************************************************************)
Lower == <<"a","b","c","d","e","f","g","h","i","j","k","l","m",
           "n","o","p","q","r","s","t","u","v","w","x","y","z">>

Upper == <<"A","B","C","D","E","F","G","H","I","J","K","L","M",
           "N","O","P","Q","R","S","T","U","V","W","X","Y","Z">>

Digit == <<"0","1","2","3","4","5","6","7","8","9">>

Range(f) == {f[i] : i \in DOMAIN f}

IndexOf(seq, c) == CHOOSE i \in DOMAIN seq : seq[i] = c

\* "?" stands for U+FFFD, what a byte that is no character decodes to.
Chars == Range(Lower) \cup Range(Upper) \cup Range(Digit)
           \cup {" ", "+", "-", ".", "/", ":", "=", "?"}

\* The character's code unit (ASCII).
CharCode ==
  [c \in Chars |->
     IF c \in Range(Lower) THEN 96 + IndexOf(Lower, c)
     ELSE IF c \in Range(Upper) THEN 64 + IndexOf(Upper, c)
     ELSE IF c \in Range(Digit) THEN 47 + IndexOf(Digit, c)
     ELSE CASE c = " " -> 32
            [] c = "+" -> 43
            [] c = "-" -> 45
            [] c = "." -> 46
            [] c = "/" -> 47
            [] c = ":" -> 58
            [] c = "=" -> 61
            [] c = "?" -> 65533]

CharOf(b) == IF \E c \in Chars : CharCode[c] = b
             THEN CHOOSE c \in Chars : CharCode[c] = b
             ELSE "?"

\* String.prototype.startsWith
StartsWith(str, prefix) ==
  /\ Len(str) >= Len(prefix)
  /\ SubSeq(str, 1, Len(prefix)) = prefix

\* String.prototype.split(sep) for a one-character separator: the pieces
\* between the separators, empty pieces included.
RECURSIVE Split(_, _)
Split(str, sep) ==
  IF \A i \in DOMAIN str : str[i] # sep THEN <<str>>
  ELSE LET i == CHOOSE k \in DOMAIN str :
                  str[k] = sep /\ \A j \in 1..(k - 1) : str[j] # sep
       IN  <<SubSeq(str, 1, i - 1)>> \o Split(SubSeq(str, i + 1, Len(str)), sep)

\* String.prototype.trim (the space is the only white space of the model)
RECURSIVE Trim(_)
Trim(str) ==
  IF str = <<>> THEN str
  ELSE IF Head(str) = " " THEN Trim(Tail(str))
  ELSE IF str[Len(str)] = " " THEN Trim(SubSeq(str, 1, Len(str) - 1))
  ELSE str

\* The store's ascending order on strings (simple binary collation).
RECURSIVE StrLess(_, _)
StrLess(a, b) ==
  IF b = <<>> THEN FALSE
  ELSE IF a = <<>> THEN TRUE
  ELSE IF Head(a) # Head(b) THEN CharCode[Head(a)] < CharCode[Head(b)]
  ELSE StrLess(Tail(a), Tail(b))

(***************************************************************************)
(* base64                                                                  *)
(***************************************************************************)
B64Alphabet == Upper \o Lower \o Digit \o <<"+", "/">>

B64Value == [c \in Range(B64Alphabet) |-> IndexOf(B64Alphabet, c) - 1]

B64Char(v) == B64Alphabet[v + 1]

\* What a client does: base64 of the string's bytes, padded with "=".
RECURSIVE B64Encode(_)
B64Encode(str) ==
  IF str = <<>> THEN <<>>
  ELSE IF Len(str) = 1 THEN
    LET b == CharCode[str[1]]
    IN  <<B64Char(b \div 4), B64Char((b % 4) * 16), "=", "=">>
  ELSE IF Len(str) = 2 THEN
    LET n == CharCode[str[1]] * 256 + CharCode[str[2]]
    IN  <<B64Char(n \div 1024), B64Char((n \div 16) % 64),
          B64Char((n % 16) * 4), "=">>
  ELSE
    LET n == CharCode[str[1]] * 65536 + CharCode[str[2]] * 256 + CharCode[str[3]]
    IN  <<B64Char(n \div 262144), B64Char((n \div 4096) % 64),
          B64Char((n \div 64) % 64), B64Char(n % 64)>>
        \o B64Encode(SubSeq(str, 4, Len(str)))

\* The sextets the decoder reads: it stops at the first "=" and skips every
\* character outside the alphabet.
RECURSIVE B64Sextets(_)
B64Sextets(str) ==
  IF str = <<>> THEN <<>>
  ELSE IF Head(str) = "=" THEN <<>>
  ELSE IF Head(str) \notin Range(B64Alphabet) THEN B64Sextets(Tail(str))
  ELSE <<B64Value[Head(str)]>> \o B64Sextets(Tail(str))

RECURSIVE B64Bytes(_)
B64Bytes(sx) ==
  IF Len(sx) < 2 THEN <<>>
  ELSE IF Len(sx) = 2 THEN <<sx[1] * 4 + sx[2] \div 16>>
  ELSE IF Len(sx) = 3 THEN
    <<sx[1] * 4 + sx[2] \div 16, (sx[2] % 16) * 16 + sx[3] \div 4>>
  ELSE
    <<sx[1] * 4 + sx[2] \div 16, (sx[2] % 16) * 16 + sx[3] \div 4,
      (sx[3] % 4) * 64 + sx[4]>>
    \o B64Bytes(SubSeq(sx, 5, Len(sx)))

\* Buffer.from(base64, "base64").toString("utf8")
B64Decode(str) ==
  LET bytes == B64Bytes(B64Sextets(str))
  IN  [i \in DOMAIN bytes |-> CharOf(bytes[i])]

(***************************************************************************)
(* JavaScript values: t is the type tag, n the number (for "number" the    *)
(* integer itself, for "half" the value n + 1/2, for "boolean" 0 or 1),    *)
(* s the characters of a string.                                           *)
(***************************************************************************)
Undef == [t |-> "undefined", n |-> 0, s |-> <<>>]

Null == [t |-> "null", n |-> 0, s |-> <<>>]

NaN == [t |-> "NaN", n |-> 0, s |-> <<>>]

Bool(b) == [t |-> "boolean", n |-> IF b THEN 1 ELSE 0, s |-> <<>>]

Num(k) == [t |-> "number", n |-> k, s |-> <<>>]

Half(k) == [t |-> "half", n |-> k, s |-> <<>>]

Str(str) == [t |-> "string", n |-> 0, s |-> str]

\* ToBoolean, as `!v` and `v || d` apply it
Truthy(v) ==
  CASE v.t \in {"undefined", "null", "NaN"} -> FALSE
    [] v.t \in {"boolean", "number"} -> v.n # 0
    [] v.t = "half" -> TRUE
    [] v.t = "string" -> v.s # <<>>

\* v || d
OrElse(v, d) == IF Truthy(v) THEN v ELSE d

RECURSIVE Digits(_)
Digits(k) == IF k < 10 THEN <<Digit[k + 1]>>
             ELSE Digits(k \div 10) \o <<Digit[(k % 10) + 1]>>

\* String(v)
StringOf(v) ==
  CASE v.t = "undefined" -> <<"u","n","d","e","f","i","n","e","d">>
    [] v.t = "null" -> <<"n","u","l","l">>
    [] v.t = "NaN" -> <<"N","a","N">>
    [] v.t = "boolean" -> IF v.n = 1 THEN <<"t","r","u","e">>
                          ELSE <<"f","a","l","s","e">>
    [] v.t = "number" -> IF v.n < 0 THEN <<"-">> \o Digits(-v.n) ELSE Digits(v.n)
    [] v.t = "half" -> IF v.n < 0 THEN <<"-">> \o Digits(-v.n - 1) \o <<".", "5">>
                       ELSE Digits(v.n) \o <<".", "5">>
    [] v.t = "string" -> v.s

RECURSIVE DigitsValue(_)
DigitsValue(str) ==
  IF str = <<>> THEN 0
  ELSE 10 * DigitsValue(SubSeq(str, 1, Len(str) - 1))
       + (IndexOf(Digit, str[Len(str)]) - 1)

IsDigits(str) == str # <<>> /\ \A i \in DOMAIN str : str[i] \in Range(Digit)

\* Number(str): white space trimmed, "" is 0, decimal digits with an
\* optional sign an integer, digits followed by ".5" a half, anything else
\* (of the strings of the model) NaN.
StringToNumber(str) ==
  LET u == Trim(str)
      neg == u # <<>> /\ Head(u) = "-"
      w == IF neg THEN Tail(u) ELSE u
      frac == Len(w) >= 3 /\ SubSeq(w, Len(w) - 1, Len(w)) = <<".", "5">>
      d == IF frac THEN SubSeq(w, 1, Len(w) - 2) ELSE w
  IN  IF u = <<>> THEN Num(0)
      ELSE IF frac /\ d = <<>> THEN Half(IF neg THEN -1 ELSE 0)
      ELSE IF ~IsDigits(d) THEN NaN
      ELSE IF frac THEN (IF neg THEN Half(-DigitsValue(d) - 1) ELSE Half(DigitsValue(d)))
      ELSE Num(IF neg THEN -DigitsValue(d) ELSE DigitsValue(d))

\* Number(v)
NumberOf(v) ==
  CASE v.t = "undefined" -> NaN
    [] v.t = "null" -> Num(0)
    [] v.t = "boolean" -> Num(v.n)
    [] v.t \in {"number", "half", "NaN"} -> v
    [] v.t = "string" -> StringToNumber(v.s)

\* v > 0
Positive(v) ==
  CASE v.t = "number" -> v.n > 0
    [] v.t = "half" -> v.n >= 0
    [] OTHER -> FALSE

\* v >= 0
NonNegative(v) ==
  CASE v.t \in {"number", "half"} -> v.n >= 0
    [] OTHER -> FALSE

(***************************************************************************)
(* Admin credentials and the Basic gate                                    *)
(***************************************************************************)
DefaultUser == <<"a","d","m","i","n">>

DefaultPass == <<"k","d","r","e","s","o","r","t">>

BasicPrefix == <<"B","a","s","i","c"," ">>

Challenge == "Basic realm=\"Admin Area\""

NoChallenge == ""

\* A response: the status code, the WWW-Authenticate header, the error or
\* text of the body, and (place) the order's identifier, (list, menu) the
\* documents, (seed-menu) the count.  Code 500 stands for no structured
\* response at all: the handler's failure is caught by nobody.
Response(code, challenge, text) ==
  [code |-> code, challenge |-> challenge, text |-> text,
   orderId |-> 0, docs |-> <<>>, count |-> 0]

Ok == Response(200, NoChallenge, "ok")

Uncaught == Response(500, NoChallenge, "uncaught")

\* The header a client sends for a user name and a password.
BasicHeader(user, pass) == Str(BasicPrefix \o B64Encode(user \o <<":">> \o pass))

\* basicAuth, lines 22 to 30: whether the header starts with "Basic ", and
\* the user and pass the handler takes out of it.
Credentials(authorization) ==
  LET header == IF Truthy(authorization) THEN authorization.s ELSE <<>>
  IN  IF ~StartsWith(header, BasicPrefix)
      THEN [basic |-> FALSE, user |-> Undef, pass |-> Undef]
      ELSE LET base64 == Split(header, " ")[2]
               decoded == B64Decode(base64)
               parts == Split(decoded, ":")
           IN  [basic |-> TRUE,
                user |-> Str(parts[1]),
                pass |-> IF Len(parts) >= 2 THEN Str(parts[2]) ELSE Undef]

\* The Authorization headers of the model's requests.
GoodHeader == BasicHeader(DefaultUser, DefaultPass)

Headers ==
  {Undef,
   GoodHeader,
   Str(<<"B","e","a","r","e","r"," ">> \o B64Encode(DefaultUser \o <<":">> \o DefaultPass)),
   Str(<<"b","a","s","i","c"," ">> \o B64Encode(DefaultUser \o <<":">> \o DefaultPass)),
   Str(BasicPrefix),
   Str(BasicPrefix \o B64Encode(DefaultUser)),
   BasicHeader(DefaultUser, <<>>),
   BasicHeader(<<"a","d">>, DefaultPass),
   BasicHeader(DefaultUser, DefaultPass \o <<":","x">>),
   BasicHeader(DefaultUser, <<"k">>),
   BasicHeader(DefaultUser, <<"k",":","d">>)}

\* Credentials, tabulated over the headers of the model.
CredentialsOf == [h \in Headers |-> Credentials(h)]

\* basicAuth up to its decision: TRUE when it calls next().
BasicAuthPasses(authorization, user0, pass0) ==
  LET c == CredentialsOf[authorization]
  IN  c.basic /\ c.user = Str(user0) /\ c.pass = Str(pass0)

\* basicAuth's own response when it does not call next().
BasicAuthResponse(authorization) ==
  LET header == IF Truthy(authorization) THEN authorization.s ELSE <<>>
  IN  IF ~StartsWith(header, BasicPrefix)
      THEN Response(401, Challenge, "Authentication required")
      ELSE Response(401, Challenge, "Invalid credentials")

(***************************************************************************)
(* The state                                                               *)
(***************************************************************************)
VARIABLES
  MONGODB_URI,  \* the connection string of the environment, a value
  ADMIN_USER,   \* the configured user name, a string
  ADMIN_PASS,   \* the configured password, a string
  phase,        \* start(): "init", "connected", "seeded", "listening", "exited"
  menu,         \* the MenuItem collection: its documents in insertion order
  orders,       \* the Order collection: _id -> document
  nextId,       \* the next _id the store generates (never one it gave before)
  clock,        \* the creation time of the newest order (0: none yet)
  inflight,     \* seed-menu requests between deleteMany and insertMany
  last          \* the request answered last with its response, until taken

vars == <<MONGODB_URI, ADMIN_USER, ADMIN_PASS, phase, menu, orders, nextId,
          clock, inflight, last>>

config == <<MONGODB_URI, ADMIN_USER, ADMIN_PASS>>

(***************************************************************************)
(* Requests                                                                *)
(***************************************************************************)
\* The value of a property that is not there, of a primitive element, or of
\* a body that is no object.
NoBody == [k |-> "none"]

\* req.params.id: a well-formed ObjectId (n names it) or any other string.
ObjectId(n) == [valid |-> TRUE, n |-> n]

MalformedId == [valid |-> FALSE, n |-> 0]

Request(op, authorization, id, body) ==
  [op |-> op, authorization |-> authorization, id |-> id, body |-> body]

None == [op |-> "none"]

Answered(req, rsp) ==
  [op |-> req.op, authorization |-> req.authorization, id |-> req.id,
   body |-> req.body, rsp |-> rsp]

\* items of a request body: Array.isArray(items) and its elements.  An
\* element is an object (k = "object") with the properties the handlers
\* read, null (k = "null") or a primitive (k = "primitive", every property
\* undefined).
NotArray == [array |-> FALSE, elems |-> <<>>]

Array(elems) == [array |-> TRUE, elems |-> elems]

\* menu.json: whether it exists, can be read, parses, and the parsed value.
SeedFile(exists, readable, parses, value) ==
  [exists |-> exists, readable |-> readable, parses |-> parses, value |-> value]

NoFile == SeedFile(FALSE, FALSE, FALSE, NotArray)

(***************************************************************************)
(* The values of the model's requests and files                            *)
(***************************************************************************)
Tea == <<"t","e","a">>

Pie == <<"p","i","e">>

Ale == <<"a","l","e">>

Wine == <<"w","i","n","e">>

Bar == <<"B","a","r">>

Abc == <<"a","b","c">>

Five == <<"5">>

Hi == <<"h","i">>

Uri == <<"m","o","n","g","o","d","b",":","/","/","d","b">>

Item(name, price, qty) == [k |-> "object", name |-> name, price |-> price, qty |-> qty]

NullItem == [k |-> "null", name |-> Undef, price |-> Undef, qty |-> Undef]

PrimitiveItem == [k |-> "primitive", name |-> Undef, price |-> Undef, qty |-> Undef]

Descriptor(name, price, category, isAvailable) ==
  [k |-> "object", name |-> name, price |-> price, category |-> category,
   isAvailable |-> isAvailable]

NullDescriptor ==
  [k |-> "null", name |-> Undef, price |-> Undef, category |-> Undef,
   isAvailable |-> Undef]

PlaceBody(table, items, customerNote, status) ==
  [table |-> table, items |-> items, customerNote |-> customerNote, status |-> status]

SeedBody(items) == [items |-> items]

PatchBody(status) == [status |-> status]

\* The sequences of one or two elements of S.
Lists(S) == {<<a>> : a \in S} \cup {<<a, b>> : a \in S, b \in S}

Ids(maxOrders) == {ObjectId(n) : n \in 1..(maxOrders + 1)} \cup {MalformedId}

TeaItem == Item(Str(<<" ">> \o Tea \o <<" ">>), Str(Five), Undef)

PieItem == Item(Str(Pie), Num(-5), Half(1))

TeaDescriptor == Descriptor(Str(<<" ">> \o Tea \o <<" ">>), Str(Five), Undef, Undef)

AleDescriptor == Descriptor(Str(Ale), Num(3), Str(<<" ">> \o Bar \o <<" ">>), Bool(TRUE))

PieDescriptor == Descriptor(Str(Pie), Undef, Str(Bar), Bool(FALSE))

WineDescriptor == Descriptor(Str(Wine), Num(4), Str(Bar), Null)

NaNPriceDescriptor == Descriptor(Str(Tea), Str(Abc), Undef, Undef)

ZeroQtyItem == Item(Str(Tea), Num(5), Num(0))

NaNPriceItem == Item(Str(Tea), Str(Abc), Num(2))

BlankItem == Item(Str(<<" ">>), Num(5), Num(1))

NegQtyItem == Item(Str(Tea), Num(5), Num(-1))

NaNQtyItem == Item(Str(Tea), Num(5), Str(Abc))

BlankDescriptor == Descriptor(Str(<<" ">>), Num(1), Undef, Undef)

MenuFile == SeedFile(TRUE, TRUE, TRUE, Array(<<AleDescriptor>>))

\* Every item and descriptor of the model: the functions applied to each
\* element of a request are tabulated over them.
Items ==
  {TeaItem, PieItem, ZeroQtyItem, NaNPriceItem, BlankItem, NegQtyItem,
   NaNQtyItem, NullItem, PrimitiveItem}

Descriptors ==
  {TeaDescriptor, AleDescriptor, PieDescriptor, WineDescriptor,
   BlankDescriptor, NaNPriceDescriptor, NullDescriptor}

(***************************************************************************)
(* Schemas                                                                 *)
(***************************************************************************)
General == <<"G","e","n","e","r","a","l">>

Pending == <<"p","e","n","d","i","n","g">>

Preparing == <<"p","r","e","p","a","r","i","n","g">>

Ready == <<"r","e","a","d","y">>

Served == <<"s","e","r","v","e","d">>

Cancelled == <<"c","a","n","c","e","l","l","e","d">>

\* A status that is none of the five.
Bogus == <<"b","o","g","u","s">>

\* MenuItemSchema: what insertMany accepts.  name is required (the empty
\* string does not satisfy required), price is required and must cast to a
\* number (NaN does not).
MenuItemValid(doc) == doc.name # <<>> /\ doc.price.t # "NaN"

\* OrderSchema: what create accepts.  table is required; the price and qty
\* of every item must cast to a number.
OrderValid(doc) ==
  /\ doc.table # <<>>
  /\ \A i \in DOMAIN doc.items :
       doc.items[i].price.t # "NaN" /\ doc.items[i].qty.t # "NaN"

\* OrderSchema's defaults: create is given no status.
NewOrder(doc, now) ==
  [table |-> doc.table, items |-> doc.items, customerNote |-> doc.customerNote,
   status |-> Pending, createdAt |-> now]

(***************************************************************************)
(* Menu service                                                            *)
(***************************************************************************)
\* The object each descriptor is mapped to (seed-menu and auto-seed).
NormalizeMenuItem(x) ==
  [name |-> Trim(StringOf(OrElse(x.name, Str(<<>>)))),
   price |-> NumberOf(OrElse(x.price, Num(0))),
   category |-> Trim(StringOf(OrElse(x.category, Str(General)))),
   isAvailable |-> IF x.isAvailable = Bool(FALSE) THEN FALSE ELSE TRUE]

\* items.map(...) reads a property of every element: null has none.
MapThrows(elems) == \E i \in DOMAIN elems : elems[i].k = "null"

NormalizedOf == [x \in Descriptors |-> NormalizeMenuItem(x)]

\* items.map((x) => ({...}))
MenuDocs(elems) == [i \in DOMAIN elems |-> NormalizedOf[elems[i]]]

\* sort({category: 1, name: 1})
MenuBefore(a, b) ==
  \/ StrLess(a.category, b.category)
  \/ a.category = b.category /\ StrLess(a.name, b.name)

\* Every order the sort may give the documents docs[i], i \in idx: the
\* store promises nothing about documents with equal keys.
RECURSIVE MenuSorted(_, _)
MenuSorted(docs, idx) ==
  IF idx = {} THEN {<<>>}
  ELSE UNION {{<<docs[i]>> \o r : r \in MenuSorted(docs, idx \ {i})} :
              i \in {j \in idx : \A k \in idx : ~MenuBefore(docs[k], docs[j])}}

\* MenuItem.find({isAvailable: true}).sort({category: 1, name: 1})
FindAvailable(docs) ==
  MenuSorted(docs, {i \in DOMAIN docs : docs[i].isAvailable})

(***************************************************************************)
(* Order service                                                           *)
(***************************************************************************)
AllowedOrBogus == {Pending, Preparing, Ready, Served, Cancelled, Bogus}

Allowed == {Pending, Preparing, Ready, Served, Cancelled}

CleanItem(it) ==
  [name |-> Trim(StringOf(OrElse(it.name, Str(<<>>)))),
   price |-> NumberOf(OrElse(it.price, Num(0))),
   qty |-> NumberOf(OrElse(it.qty, Num(1)))]

Kept(it) == it.name # <<>> /\ Positive(it.qty)

CleanOf == [it \in Items |-> CleanItem(it)]

\* items.map(...).filter(...)
CleanItems(elems) ==
  SelectSeq([i \in DOMAIN elems |-> CleanOf[elems[i]]], Kept)

\* What the handler gives Order.create.
OrderInput(body) ==
  [table |-> StringOf(body.table),
   items |-> CleanItems(body.items.elems),
   customerNote |-> StringOf(OrElse(body.customerNote, Str(<<>>)))]

\* Every order of the ids of a set.
RECURSIVE Orderings(_)
Orderings(ids) ==
  IF ids = {} THEN {<<>>}
  ELSE UNION {{<<i>> \o r : r \in Orderings(ids \ {i})} : i \in ids}

\* createdAt of the newest document (0: no document).
Newest(coll) ==
  IF DOMAIN coll = {} THEN 0
  ELSE coll[CHOOSE j \in DOMAIN coll :
              \A k \in DOMAIN coll : coll[k].createdAt <= coll[j].createdAt].createdAt

\* Order.find().sort({createdAt: -1}): every order the sort may give the
\* documents created from lo to hi, newest first; documents created in the
\* same millisecond come in any order.
RECURSIVE OrdersSorted(_, _, _)
OrdersSorted(coll, lo, hi) ==
  IF lo > hi THEN {<<>>}
  ELSE IF lo = hi
  THEN Orderings({k \in DOMAIN coll : coll[k].createdAt = lo})
  ELSE LET mid == (lo + hi) \div 2
       IN  UNION {{p \o r : r \in OrdersSorted(coll, lo, mid)} :
                  p \in OrdersSorted(coll, mid + 1, hi)}

ListCap == 300

Unlimited(seq, n) == seq

Limit(seq, n) == IF Len(seq) <= n THEN seq ELSE SubSeq(seq, 1, n)

\* Order.find().sort({createdAt: -1}).limit(300), as documents with _id
FindRecent(coll) ==
  {[i \in DOMAIN r |-> [_id |-> r[i], doc |-> coll[r[i]]]] :
     r \in {Limit(q, ListCap) : q \in OrdersSorted(coll, 1, Newest(coll))}}

(***************************************************************************)
(* Store operations on the Order collection                                *)
(***************************************************************************)
FindByIdAndUpdateAll(coll, n, status) ==
  IF n \in DOMAIN coll
  THEN [k \in DOMAIN coll |-> [coll[k] EXCEPT !.status = status]]
  ELSE coll

FindByIdAndUpdateOpen(coll, n, status) ==
  IF n \in DOMAIN coll /\ coll[n].status \notin {Served, Cancelled}
  THEN [coll EXCEPT ![n].status = status]
  ELSE coll

\* Order.findByIdAndUpdate(id, {status}, {new: true}): the collection after
\* it.  No document is made when none has the id.
FindByIdAndUpdate(coll, n, status) ==
  IF n \in DOMAIN coll THEN [coll EXCEPT ![n].status = status] ELSE coll

\* Order.findByIdAndDelete(id): the collection after it.
FindByIdAndDelete(coll, n) == [k \in DOMAIN coll \ {n} |-> coll[k]]

\* Order.create(doc): the collection after it.
Create(coll, n, doc) == [k \in DOMAIN coll \cup {n} |-> IF k = n THEN doc ELSE coll[k]]

\* The times the store may stamp a new order with: time does not go back,
\* and two orders may be created within the same millisecond.
Now == IF clock = 0 THEN {1} ELSE {clock, clock + 1}

(***************************************************************************)
(* Handlers                                                                *)
(***************************************************************************)
Gate(authorization) == BasicAuthPasses(authorization, ADMIN_USER, ADMIN_PASS)

\* The server takes a request once it listens; `last` is empty while no
\* answered request waits to be taken.
Accepting == phase = "listening" /\ last.op = "none"

NoId == [valid |-> FALSE, n |-> -1]

Answer(req, rsp) == last' = Answered(req, rsp)

\* GET /admin
AdminPage(authorization) ==
  LET req == Request("admin", authorization, NoId, NoBody)
  IN  /\ Accepting
      /\ IF Gate(authorization)
         THEN Answer(req, Response(200, NoChallenge, "admin.html"))
         ELSE Answer(req, BasicAuthResponse(authorization))
      /\ UNCHANGED <<config, phase, menu, orders, nextId, clock, inflight>>

\* GET /api/menu
GetMenu ==
  LET req == Request("menu", Undef, NoId, NoBody)
  IN  /\ Accepting
      /\ \E r \in FindAvailable(menu) : Answer(req, [Ok EXCEPT !.docs = r])
      /\ UNCHANGED <<config, phase, menu, orders, nextId, clock, inflight>>

SeedMenuDeleteFirst(authorization, body, maxInflight) ==
  LET req == Request("seed", authorization, NoId, body)
  IN  /\ Accepting
      /\ IF ~Gate(authorization)
         THEN /\ Answer(req, BasicAuthResponse(authorization))
              /\ UNCHANGED <<menu, inflight>>
         ELSE IF ~body.items.array \/ Len(body.items.elems) = 0
         THEN /\ Answer(req, Response(400, NoChallenge, "items required"))
              /\ menu' = <<>>
              /\ UNCHANGED inflight
         ELSE /\ Len(inflight) < maxInflight
              /\ menu' = <<>>
              /\ inflight' = Append(inflight, req)
              /\ UNCHANGED last
      /\ UNCHANGED <<config, phase, orders, nextId, clock>>

SeedMenuKeep(authorization, body, maxInflight) ==
  LET req == Request("seed", authorization, NoId, body)
  IN  /\ Accepting
      /\ IF ~Gate(authorization)
         THEN /\ Answer(req, BasicAuthResponse(authorization))
              /\ UNCHANGED <<menu, inflight>>
         ELSE IF ~body.items.array \/ Len(body.items.elems) = 0
         THEN /\ Answer(req, Response(400, NoChallenge, "items required"))
              /\ UNCHANGED <<menu, inflight>>
         ELSE /\ Len(inflight) < maxInflight
              /\ menu' = menu
              /\ inflight' = Append(inflight, req)
              /\ UNCHANGED last
      /\ UNCHANGED <<config, phase, orders, nextId, clock>>

\* POST /api/admin/seed-menu, to the end of `await MenuItem.deleteMany({})`
SeedMenu(authorization, body, maxInflight) ==
  LET req == Request("seed", authorization, NoId, body)
  IN  /\ Accepting
      /\ IF ~Gate(authorization)
         THEN /\ Answer(req, BasicAuthResponse(authorization))
              /\ UNCHANGED <<menu, inflight>>
         ELSE IF ~body.items.array \/ Len(body.items.elems) = 0
         THEN /\ Answer(req, Response(400, NoChallenge, "items required"))
              /\ UNCHANGED <<menu, inflight>>
         ELSE /\ Len(inflight) < maxInflight
              /\ menu' = <<>>
              /\ inflight' = Append(inflight, req)
              /\ UNCHANGED last
      /\ UNCHANGED <<config, phase, orders, nextId, clock>>

\* POST /api/admin/seed-menu, from items.map(...) to the response
SeedMenuInsert(i) ==
  LET req == inflight[i]
      elems == req.body.items.elems
      docs == MenuDocs(elems)
  IN  /\ Accepting
      /\ inflight' = SubSeq(inflight, 1, i - 1) \o SubSeq(inflight, i + 1, Len(inflight))
      /\ IF MapThrows(elems)
         THEN Answer(req, Uncaught) /\ UNCHANGED menu
         ELSE IF \E k \in DOMAIN docs : ~MenuItemValid(docs[k])
         THEN Answer(req, Uncaught) /\ UNCHANGED menu
         ELSE /\ menu' = menu \o docs
              /\ Answer(req, [Ok EXCEPT !.count = Len(elems)])
      /\ UNCHANGED <<config, phase, orders, nextId, clock>>

\* GET /api/orders
ListOrders(authorization) ==
  LET req == Request("list", authorization, NoId, NoBody)
  IN  /\ Accepting
      /\ IF Gate(authorization)
         THEN \E r \in FindRecent(orders) : Answer(req, [Ok EXCEPT !.docs = r])
         ELSE Answer(req, BasicAuthResponse(authorization))
      /\ UNCHANGED <<config, phase, menu, orders, nextId, clock, inflight>>

\* POST /api/orders
PlaceOrder(body, maxOrders) ==
  LET req == Request("place", Undef, NoId, body)
      elems == body.items.elems
      input == OrderInput(body)
  IN  /\ Accepting
      /\ IF ~Truthy(body.table) \/ ~body.items.array \/ Len(elems) = 0
         THEN /\ Answer(req, Response(400, NoChallenge, "table and items required"))
              /\ UNCHANGED <<orders, nextId, clock>>
         ELSE IF MapThrows(elems)
         THEN /\ Answer(req, Uncaught)
              /\ UNCHANGED <<orders, nextId, clock>>
         ELSE IF Len(CleanItems(elems)) = 0
         THEN /\ Answer(req, Response(400, NoChallenge, "invalid items"))
              /\ UNCHANGED <<orders, nextId, clock>>
         ELSE IF ~OrderValid(input)
         THEN /\ Answer(req, Uncaught)
              /\ UNCHANGED <<orders, nextId, clock>>
         ELSE /\ nextId <= maxOrders
              /\ \E now \in Now :
                   /\ orders' = Create(orders, nextId, NewOrder(input, now))
                   /\ clock' = now
              /\ nextId' = nextId + 1
              /\ Answer(req, [Ok EXCEPT !.orderId = nextId])
      /\ UNCHANGED <<config, phase, menu, inflight>>

\* PATCH /api/orders/:id
UpdateStatus(authorization, id, body) ==
  LET req == Request("patch", authorization, id, body)
      status == body.status
  IN  /\ Accepting
      /\ IF ~Gate(authorization)
         THEN Answer(req, BasicAuthResponse(authorization)) /\ UNCHANGED orders
         ELSE IF ~(status.t = "string" /\ status.s \in Allowed)
         THEN Answer(req, Response(400, NoChallenge, "invalid status")) /\ UNCHANGED orders
         ELSE IF ~id.valid
         THEN Answer(req, Uncaught) /\ UNCHANGED orders
         ELSE /\ orders' = FindByIdAndUpdate(orders, id.n, status.s)
              /\ IF id.n \in DOMAIN orders'
                 THEN Answer(req, Ok)
                 ELSE Answer(req, Response(404, NoChallenge, "order not found"))
      /\ UNCHANGED <<config, phase, menu, nextId, clock, inflight>>

\* DELETE /api/orders/:id
DeleteOrder(authorization, id) ==
  LET req == Request("delete", authorization, id, NoBody)
  IN  /\ Accepting
      /\ IF ~Gate(authorization)
         THEN Answer(req, BasicAuthResponse(authorization)) /\ UNCHANGED orders
         ELSE IF ~id.valid
         THEN Answer(req, Uncaught) /\ UNCHANGED orders
         ELSE /\ orders' = FindByIdAndDelete(orders, id.n)
              /\ IF id.n \in DOMAIN orders
                 THEN Answer(req, Ok)
                 ELSE Answer(req, Response(404, NoChallenge, "order not found"))
      /\ UNCHANGED <<config, phase, menu, nextId, clock, inflight>>

\* The client takes the response.
Deliver ==
  /\ last.op # "none"
  /\ last' = None
  /\ UNCHANGED <<config, phase, menu, orders, nextId, clock, inflight>>

(***************************************************************************)
(* Startup                                                                 *)
(***************************************************************************)
\* start(), to the end of `await mongoose.connect(MONGODB_URI)`
Connect(connected) ==
  /\ phase = "init"
  /\ phase' = IF ~Truthy(MONGODB_URI) THEN "exited"
              ELSE IF ~connected THEN "exited"
              ELSE "connected"
  /\ UNCHANGED <<config, menu, orders, nextId, clock, inflight, last>>

AutoSeedDocsAnyCount(count, file) ==
  IF ~file.exists THEN <<>>
  ELSE IF ~file.readable \/ ~file.parses THEN <<>>
  ELSE IF ~(file.value.array /\ Len(file.value.elems) > 0) THEN <<>>
  ELSE IF MapThrows(file.value.elems) THEN <<>>
  ELSE IF \E k \in DOMAIN file.value.elems :
            ~MenuItemValid(MenuDocs(file.value.elems)[k]) THEN <<>>
  ELSE MenuDocs(file.value.elems)

\* autoSeedMenuIfEmpty(): what it inserts.  Every failure is caught.
AutoSeedDocs(count, file) ==
  IF count > 0 THEN <<>>
  ELSE IF ~file.exists THEN <<>>
  ELSE IF ~file.readable \/ ~file.parses THEN <<>>
  ELSE IF ~(file.value.array /\ Len(file.value.elems) > 0) THEN <<>>
  ELSE IF MapThrows(file.value.elems) THEN <<>>
  ELSE IF \E k \in DOMAIN file.value.elems :
            ~MenuItemValid(MenuDocs(file.value.elems)[k]) THEN <<>>
  ELSE MenuDocs(file.value.elems)

AutoSeedFatal(file) ==
  /\ phase = "connected"
  /\ menu' = menu \o AutoSeedDocsAnyCount(0, file)
  /\ phase' = IF /\ Len(menu) = 0
                 /\ file.exists
                 /\ \/ ~file.readable
                    \/ ~file.parses
                    \/ /\ file.value.array
                       /\ Len(file.value.elems) > 0
                       /\ AutoSeedDocsAnyCount(0, file) = <<>>
              THEN "exited"
              ELSE "seeded"
  /\ UNCHANGED <<config, orders, nextId, clock, inflight, last>>

\* await autoSeedMenuIfEmpty()
AutoSeed(file) ==
  /\ phase = "connected"
  /\ menu' = menu \o AutoSeedDocs(Len(menu), file)
  /\ phase' = "seeded"
  /\ UNCHANGED <<config, orders, nextId, clock, inflight, last>>

ListenEarly ==
  /\ phase \in {"connected", "seeded"}
  /\ phase' = "listening"
  /\ UNCHANGED <<config, menu, orders, nextId, clock, inflight, last>>

\* app.listen(PORT, ...)
Listen ==
  /\ phase = "seeded"
  /\ phase' = "listening"
  /\ UNCHANGED <<config, menu, orders, nextId, clock, inflight, last>>

(***************************************************************************)
(* Inputs.  A domain D names the values the environment draws from: the    *)
(* environment's variables, menu.json, the menu a former run left, and     *)
(* the fields of the requests.                                             *)
(***************************************************************************)
MaxOrders == 2

MaxInflight == 1

MaxPlaced == 1

MaxConcurrent == 2

\* The whole program, every request field over a few values.
Small ==
  [uris |-> {Undef, Str(Uri)},
   connects |-> BOOLEAN,
   envUsers |-> {Undef},
   envPasses |-> {Undef},
   menus |-> {<<>>},
   files |-> {NoFile, MenuFile},
   headers |-> {Undef, GoodHeader},
   placeBodies |->
     {PlaceBody(Str(Five), Array(<<TeaItem>>), Undef, Undef),
      PlaceBody(Num(5), Array(<<TeaItem, NaNPriceItem>>), Undef, Undef),
      PlaceBody(Str(Five), Array(<<PieItem, TeaItem>>), Str(Hi), Str(Served)),
      PlaceBody(Undef, Array(<<TeaItem>>), Undef, Undef)},
   seedBodies |->
     {SeedBody(NotArray), SeedBody(Array(<<TeaDescriptor>>)),
      SeedBody(Array(<<BlankDescriptor>>))},
   statuses |-> {Str(Ready), Str(Served), Str(Bogus)},
   ids |-> Ids(MaxOrders),
   maxOrders |-> MaxOrders,
   maxInflight |-> MaxInflight]

\* The order service, the fields of a place body and the status of an
\* update over many values.
OrderService ==
  [uris |-> {Str(Uri)},
   connects |-> {TRUE},
   envUsers |-> {Undef},
   envPasses |-> {Undef},
   menus |-> {<<>>},
   files |-> {NoFile},
   headers |-> {Undef, GoodHeader},
   placeBodies |->
     {PlaceBody(table, items, Undef, Undef) :
        table \in {Undef, Str(<<>>), Str(Five)},
        items \in {NotArray, Array(<<>>), Array(<<PrimitiveItem>>),
                   Array(<<NaNQtyItem, PrimitiveItem>>)}
                  \cup {Array(l) : l \in Lists(Items \ {PrimitiveItem, NaNQtyItem})}}
     \cup {PlaceBody(Num(5), items, Str(Hi), Str(Served)) :
             items \in {Array(<<TeaItem>>), Array(<<BlankItem>>)}},
   seedBodies |-> {},
   statuses |-> {Str(Pending), Str(Preparing), Str(Ready), Str(Served),
                 Str(Cancelled), Str(Bogus), Undef},
   ids |-> Ids(MaxPlaced),
   maxOrders |-> MaxPlaced,
   maxInflight |-> 0]

\* The gate: every header of the model, and the passwords the environment
\* may configure.
GateService ==
  [uris |-> {Str(Uri)},
   connects |-> {TRUE},
   envUsers |-> {Undef, Str(<<>>)},
   envPasses |-> {Undef, Str(<<>>), Str(<<"k">>), Str(<<"k",":","d">>)},
   menus |-> {<<>>},
   files |-> {MenuFile},
   headers |-> Headers,
   placeBodies |-> {PlaceBody(Str(Five), Array(<<TeaItem>>), Undef, Undef)},
   seedBodies |-> {SeedBody(Array(<<TeaDescriptor>>))},
   statuses |-> {Str(Ready)},
   ids |-> Ids(MaxPlaced),
   maxOrders |-> MaxPlaced,
   maxInflight |-> MaxInflight]

\* The menu service, the descriptors of a seed-menu body and menu.json over
\* many values.
MenuService ==
  [uris |-> {Str(Uri)},
   connects |-> {TRUE},
   envUsers |-> {Undef},
   envPasses |-> {Undef},
   menus |-> {<<>>, MenuDocs(<<WineDescriptor>>)},
   files |-> {NoFile, MenuFile,
              SeedFile(TRUE, FALSE, FALSE, NotArray),
              SeedFile(TRUE, TRUE, FALSE, NotArray),
              SeedFile(TRUE, TRUE, TRUE, NotArray),
              SeedFile(TRUE, TRUE, TRUE, Array(<<AleDescriptor, NullDescriptor>>)),
              SeedFile(TRUE, TRUE, TRUE, Array(<<AleDescriptor, BlankDescriptor>>))},
   headers |-> {Undef, GoodHeader},
   placeBodies |-> {},
   seedBodies |->
     {SeedBody(items) :
        items \in {NotArray, Array(<<>>)} \cup {Array(l) : l \in Lists(Descriptors)}},
   statuses |-> {},
   ids |-> {},
   maxOrders |-> 0,
   maxInflight |-> 1]

\* Startup: the environment with and without a connection string, the
\* connection succeeding or not, every state of menu.json, and the menu a
\* former run left (none, one put by seed-menu, the one menu.json seeds).
StartService ==
  [MenuService EXCEPT
     !.uris = {Undef, Str(<<>>), Str(Uri)},
     !.connects = BOOLEAN,
     !.menus = {<<>>, MenuDocs(<<WineDescriptor>>), MenuDocs(<<AleDescriptor>>)},
     !.seedBodies =
        {SeedBody(NotArray)} \cup
        {SeedBody(Array(l)) :
           l \in Lists({TeaDescriptor, WineDescriptor, BlankDescriptor})}]

\* The menu service with seed-menu requests running at the same time.
RaceService ==
  [MenuService EXCEPT
     !.menus = {<<>>},
     !.files = {NoFile, MenuFile},
     !.seedBodies = {SeedBody(Array(<<TeaDescriptor>>)),
                     SeedBody(Array(<<AleDescriptor>>)),
                     SeedBody(Array(<<WineDescriptor, PieDescriptor>>))},
     !.maxInflight = MaxConcurrent]

(***************************************************************************)
(* Specifications                                                          *)
(***************************************************************************)
InitOver(D) ==
  /\ MONGODB_URI \in D.uris
  /\ \E user \in D.envUsers : ADMIN_USER = OrElse(user, Str(DefaultUser)).s
  /\ \E pass \in D.envPasses : ADMIN_PASS = OrElse(pass, Str(DefaultPass)).s
  /\ phase = "init"
  /\ menu \in D.menus
  /\ orders = <<>>
  /\ nextId = 1
  /\ clock = 0
  /\ inflight = <<>>
  /\ last = None

NextOver(D) ==
  \/ \E connected \in D.connects : Connect(connected)
  \/ \E file \in D.files : AutoSeed(file)
  \/ Listen
  \/ \E h \in D.headers : AdminPage(h)
  \/ GetMenu
  \/ \E h \in D.headers, b \in D.seedBodies : SeedMenu(h, b, D.maxInflight)
  \/ \E i \in DOMAIN inflight : SeedMenuInsert(i)
  \/ \E h \in D.headers : ListOrders(h)
  \/ \E b \in D.placeBodies : PlaceOrder(b, D.maxOrders)
  \/ \E h \in D.headers, id \in D.ids, status \in D.statuses :
       UpdateStatus(h, id, PatchBody(status))
  \/ \E h \in D.headers, id \in D.ids : DeleteOrder(h, id)
  \/ Deliver

Init == InitOver(Small)

Next == NextOver(Small)

Spec == Init /\ [][Next]_vars

\* The gate under every header and configured password.
InitGate == InitOver(GateService)

NextGate == NextOver(GateService)

SpecGate == InitGate /\ [][NextGate]_vars

\* The requests of the order service.
OrdersNextOver(D) ==
  \/ \E connected \in D.connects : Connect(connected)
  \/ \E file \in D.files : AutoSeed(file)
  \/ Listen
  \/ \E h \in D.headers : ListOrders(h)
  \/ \E b \in D.placeBodies : PlaceOrder(b, D.maxOrders)
  \/ \E h \in D.headers, id \in D.ids, status \in D.statuses :
       UpdateStatus(h, id, PatchBody(status))
  \/ \E h \in D.headers, id \in D.ids : DeleteOrder(h, id)
  \/ Deliver

InitOrders == InitOver(OrderService)

NextOrders == OrdersNextOver(OrderService)

SpecOrders == InitOrders /\ [][NextOrders]_vars

\* The requests of the menu service, each seed-menu request alone.
MenuNextOver(D) ==
  \/ \E connected \in D.connects : Connect(connected)
  \/ \E file \in D.files : AutoSeed(file)
  \/ Listen
  \/ GetMenu
  \/ \E h \in D.headers, b \in D.seedBodies : SeedMenu(h, b, D.maxInflight)
  \/ \E i \in DOMAIN inflight : SeedMenuInsert(i)
  \/ Deliver

InitMenu == InitOver(MenuService)

NextMenu == MenuNextOver(MenuService)

SpecMenu == InitMenu /\ [][NextMenu]_vars

\* The orders a former run left: n orders of one tea, the two oldest placed
\* within the same millisecond.
Stored(n) ==
  [k \in 1..n |->
     NewOrder(OrderInput(PlaceBody(Str(Five), Array(<<TeaItem>>), Undef, Undef)),
              IF k = 1 THEN 2 ELSE k)]

\* The order service over a store that holds about as many orders as the
\* list returns at most.
InitList ==
  /\ MONGODB_URI = Str(Uri)
  /\ ADMIN_USER = DefaultUser
  /\ ADMIN_PASS = DefaultPass
  /\ phase = "init"
  /\ menu = <<>>
  /\ \E n \in {ListCap - 1, ListCap, ListCap + 1} :
       /\ orders = Stored(n)
       /\ nextId = n + 1
       /\ clock = n
  /\ inflight = <<>>
  /\ last = None

NextList ==
  \/ Connect(TRUE)
  \/ AutoSeed(NoFile)
  \/ Listen
  \/ \E h \in {Undef, GoodHeader} : ListOrders(h)
  \/ PlaceOrder(PlaceBody(Str(Five), Array(<<PieItem>>), Undef, Undef),
                ListCap + 1 + MaxPlaced)
  \/ \E id \in {ObjectId(1), ObjectId(ListCap), ObjectId(ListCap + 1)} :
       DeleteOrder(GoodHeader, id)
  \/ Deliver

SpecList == InitList /\ [][NextList]_vars

\* The requests of the menu service, seed-menu requests overlapping.
InitRace == InitOver(RaceService)

NextRace == MenuNextOver(RaceService)

SpecRace == InitRace /\ [][NextRace]_vars

\* Startup.  Each await of start() that the store answers completes: the
\* connection, the seeding and the call of listen are weakly fair.
InitStart == InitOver(StartService)

NextStart == MenuNextOver(StartService)

SpecStart ==
  /\ InitStart
  /\ [][NextStart]_vars
  /\ WF_vars(\E connected \in StartService.connects : Connect(connected))
  /\ WF_vars(\E file \in StartService.files : AutoSeed(file))
  /\ WF_vars(Listen)

(***************************************************************************)
(* What the claims speak of                                                *)
(***************************************************************************)
StatusEnum == {Pending, Preparing, Ready, Served, Cancelled}

\* The request carries the configured pair in a Basic header.
Authorized(r) == r.authorization = BasicHeader(ADMIN_USER, ADMIN_PASS)

\* req.params.id is the _id of a document of the collection.
Matches(id, coll) == id.valid /\ id.n \in DOMAIN coll

\* The element is a line item that normalization and filtering keep.
Survives(el) ==
  /\ el.k # "null"
  /\ CleanOf[el].name # <<>>
  /\ Positive(CleanOf[el].qty)

\* The normalized, filtered items in their original order.
ExpectedItems(elems) ==
  LET kept == SelectSeq(elems, Survives)
  IN  [i \in DOMAIN kept |-> CleanOf[kept[i]]]

\* C1: every stored order has a status that is one of pending, preparing,
\* ready, served, cancelled, whatever requests were made.
C1_StatusEnumerated ==
  \A id \in DOMAIN orders : orders[id].status \in StatusEnum

\* An order was set to ready, and then an authorized update of it to a
\* status outside the five was answered 400.
C1_Witness ==
  /\ last.op = "patch"
  /\ Authorized(last)
  /\ last.body.status = Str(Bogus)
  /\ last.rsp.code = 400
  /\ Matches(last.id, orders)
  /\ orders[last.id.n].status = Ready

\* C4: a place request with a non-empty table and a line item that survives
\* returns an identifier and creates exactly one order, pending, with the
\* normalized, filtered items in order; a list after it includes the order.
C4_PlaceCreates ==
  [][(/\ last.op = "none"
      /\ last'.op = "place"
      /\ Truthy(last'.body.table)
      /\ last'.body.items.array
      /\ \E i \in DOMAIN last'.body.items.elems : Survives(last'.body.items.elems[i]))
     => LET oid == last'.rsp.orderId
        IN  /\ last'.rsp.code = 200
            /\ oid \notin DOMAIN orders
            /\ DOMAIN orders' = DOMAIN orders \cup {oid}
            /\ \A k \in DOMAIN orders : orders'[k] = orders[k]
            /\ orders'[oid].status = Pending
            /\ orders'[oid].items = ExpectedItems(last'.body.items.elems)
            /\ \A r \in FindRecent(orders') : \E j \in DOMAIN r : r[j]._id = oid]_vars

\* C7: an authorized updateStatus with a status outside the five is answered
\* 400 whatever the id, one with an allowed status and an id that matches no
\* order 404, and neither creates or changes an order.
C7_UpdateRejects ==
  [][(last.op = "none" /\ last'.op = "patch" /\ Authorized(last'))
     => LET status == last'.body.status
            allowed == status.t = "string" /\ status.s \in StatusEnum
        IN  /\ ~allowed => last'.rsp.code = 400 /\ orders' = orders
            /\ (allowed /\ ~Matches(last'.id, orders))
                 => last'.rsp.code = 404 /\ orders' = orders]_vars

\* C8: an authorized delete of an id that matches no order is answered 404
\* and changes nothing; one of an existing order removes it, and an order
\* that is gone never comes back.
C8_DeleteRemoves ==
  [][/\ (last.op = "none" /\ last'.op = "delete" /\ Authorized(last'))
          => IF Matches(last'.id, orders)
             THEN /\ last'.rsp.code = 200
                  /\ DOMAIN orders' = DOMAIN orders \ {last'.id.n}
             ELSE /\ last'.rsp.code = 404
                  /\ orders' = orders
     /\ \A n \in 1..(nextId - 1) : n \notin DOMAIN orders => n \notin DOMAIN orders']_vars

\* C10: place, replaceAll and updateStatus answer every body with success or
\* a structured 400 (401 to a request the gate refuses, 404 to an unknown
\* id), never with an uncaught failure.
C10_NoUncaught ==
  (last.op \in {"place", "seed"} \/ (last.op = "patch" /\ last.id.valid))
    => last.rsp.code # 500

\* The user name and the password of the Basic scheme: the decoded text up
\* to its first colon, and all that follows the colon.
RECURSIVE FirstColon(_)
FirstColon(str) ==
  IF str = <<>> THEN 0
  ELSE IF Head(str) = ":" THEN 1
  ELSE IF FirstColon(Tail(str)) = 0 THEN 0
  ELSE 1 + FirstColon(Tail(str))

SentPair(authorization) ==
  LET decoded == B64Decode(SubSeq(authorization.s, Len(BasicPrefix) + 1,
                                  Len(authorization.s)))
      c == FirstColon(decoded)
  IN  IF c = 0 THEN [colon |-> FALSE, user |-> decoded, pass |-> <<>>]
      ELSE [colon |-> TRUE, user |-> SubSeq(decoded, 1, c - 1),
            pass |-> SubSeq(decoded, c + 1, Len(decoded))]

BasicScheme(authorization) ==
  authorization.t = "string" /\ StartsWith(authorization.s, BasicPrefix)

PairDiffers(authorization) ==
  LET p == SentPair(authorization)
  IN  ~(p.colon /\ p.user = ADMIN_USER /\ p.pass = ADMIN_PASS)

Gated == {"admin", "seed", "list", "patch", "delete"}

\* C2: on every gated route a request without a Basic header is answered
\* 401 with the challenge, and one whose pair differs from the configured
\* pair is answered 401; the menu and the orders stay as they are and no
\* document is returned.
C2_GateRefuses ==
  [][(/\ last.op = "none"
      /\ last'.op \in Gated
      /\ \/ ~BasicScheme(last'.authorization)
         \/ PairDiffers(last'.authorization))
     => /\ last'.rsp.code = 401
        /\ last'.rsp.challenge = Challenge
        /\ last'.rsp.docs = <<>>
        /\ menu' = menu
        /\ orders' = orders]_vars

\* C3: whatever user name and password are configured, a request with the
\* header "Basic " and the base64 of "username:password" passes the gate.
C3_GateAdmits ==
  (last.op \in Gated /\ Authorized(last)) => last.rsp.code # 401

\* v <= 0
NonPositive(v) ==
  CASE v.t = "number" -> v.n <= 0
    [] v.t = "half" -> v.n < 0
    [] OTHER -> FALSE

\* The element is one the filter is to drop: its name is empty after
\* trimming, or its quantity is not a number above 0 (as sent, or as
\* normalized).
Dropped(el) ==
  /\ el.k # "null"
  /\ \/ CleanOf[el].name = <<>>
     \/ ~Positive(CleanOf[el].qty)
     \/ NonPositive(NumberOf(el.qty))

TableMissing(table) == table.t \in {"undefined", "null"} \/ table = Str(<<>>)

\* C5: place is answered 400 and leaves the orders as they are when the
\* table is absent or empty, items is no non-empty sequence, or every item
\* is dropped by the filter.
C5_PlaceRejects ==
  [][(/\ last.op = "none"
      /\ last'.op = "place"
      /\ \/ TableMissing(last'.body.table)
         \/ ~last'.body.items.array
         \/ \A i \in DOMAIN last'.body.items.elems :
              Dropped(last'.body.items.elems[i]))
     => /\ last'.rsp.code = 400
        /\ orders' = orders
        /\ nextId' = nextId]_vars

\* C6: an authorized updateStatus of an existing order to any of the five
\* statuses succeeds, whatever the order's status was, and the order then
\* reads with that status.
C6_AnyTransition ==
  [][(/\ last.op = "none"
      /\ last'.op = "patch"
      /\ Authorized(last')
      /\ Matches(last'.id, orders)
      /\ last'.body.status.t = "string"
      /\ last'.body.status.s \in StatusEnum)
     => /\ last'.rsp.code = 200
        /\ DOMAIN orders' = DOMAIN orders
        /\ orders'[last'.id.n].status = last'.body.status.s
        /\ \A r \in FindRecent(orders') :
             \A j \in DOMAIN r :
               r[j]._id = last'.id.n => r[j].doc.status = last'.body.status.s]_vars

\* An authorized update of an existing order to ready was answered 200, and
\* the order, created pending, is ready.
C6_Witness ==
  /\ last.op = "patch"
  /\ Authorized(last)
  /\ last.rsp.code = 200
  /\ last.body.status = Str(Ready)
  /\ Matches(last.id, orders)
  /\ orders[last.id.n].status = Ready

\* Category ascending, then name ascending.
Precedes(a, b) ==
  \/ StrLess(a.category, b.category)
  \/ a.category = b.category /\ StrLess(a.name, b.name)

SortedMenu(r) == \A i, j \in DOMAIN r : i < j => ~Precedes(r[j], r[i])

Count(seq, d) == Cardinality({i \in DOMAIN seq : seq[i] = d})

SameItems(r, e) == \A d \in Range(r) \cup Range(e) : Count(r, d) = Count(e, d)

IsAvailable(doc) == doc.isAvailable

\* The normalized items whose availability is not explicitly false.
AvailableOf(elems) == SelectSeq(MenuDocs(elems), IsAvailable)

\* An authorized replaceAll of a non-empty sequence of descriptors (each an
\* object) has run to its end.
Replaced ==
  /\ last.op = "seed"
  /\ Authorized(last)
  /\ last.body.items.array
  /\ Len(last.body.items.elems) > 0
  /\ \A i \in DOMAIN last.body.items.elems : last.body.items.elems[i].k = "object"

\* What listAvailable returns is exactly the items e, in order.
Lists_Exactly(r, e) == SortedMenu(r) /\ SameItems(r, e)

\* C9: after an authorized replaceAll of any non-empty sequence of
\* descriptors that ran alone, listAvailable returns exactly the normalized
\* items not explicitly unavailable, by category, then name.
C9_ReplaceThenList ==
  Replaced => \A r \in FindAvailable(menu) :
                Lists_Exactly(r, AvailableOf(last.body.items.elems))

\* C11: when the menu holds a document as startup runs, seeding inserts
\* nothing and deletes nothing: startup over existing menu data, however
\* often it runs, leaves the menu as it was.
C11_SeedingIdempotent ==
  [][(phase = "connected" /\ phase' # phase /\ Len(menu) >= 1) => menu' = menu]_vars

\* Seeding has run over a menu that a former run left (wine, which no
\* menu.json of the model holds), and the menu is that one item still.
C11_Witness ==
  /\ phase = "seeded"
  /\ menu = MenuDocs(<<WineDescriptor>>)

\* C12: once the configuration is present and the connection has succeeded,
\* the process comes to listen, whatever menu.json holds, and no step of
\* seeding makes it exit.
C12_StartupSurvivesSeeding ==
  /\ (phase = "connected") ~> (phase = "listening")
  /\ [][phase = "connected" => phase' # "exited"]_vars

\* The process listens on an empty menu: menu.json was absent or seeding it
\* failed, and startup went on.
C12_Witness ==
  /\ phase = "listening"
  /\ menu = <<>>
  /\ inflight = <<>>
  /\ last = None

\* C17: start() connects, then seeds once, then listens; a request is
\* handled only once the process listens; without a connection string, or
\* when the connection fails, the process exits, and then neither seeds nor
\* listens.
C17_StartupOrdered ==
  [][/\ phase' # phase =>
          \/ phase = "init" /\ phase' \in {"connected", "exited"}
          \/ phase = "connected" /\ phase' = "seeded"
          \/ phase = "seeded" /\ phase' = "listening"
     /\ (phase = "init" /\ phase' = "connected") => Truthy(MONGODB_URI)
     /\ (phase # "listening" /\ menu' # menu) => (phase = "connected" /\ phase' = "seeded")
     /\ (last' # last \/ orders' # orders \/ inflight' # inflight) => phase = "listening"
     /\ phase = "exited" => (menu' = menu /\ orders' = orders /\ last' = last)]_vars

\* The process listens and has answered a request for the menu with the
\* item that seeding put there.
C17_Witness ==
  /\ phase = "listening"
  /\ last.op = "menu"
  /\ last.rsp.docs = MenuDocs(<<AleDescriptor>>)

Stamp(coll, id) == coll[id].createdAt

\* C13: list returns the min(n, 300) most recently created of the n stored
\* orders, newest first: each order once, as stored, none outside the
\* result newer than one inside it, and never more than 300.
C13_ListRecent ==
  (last.op = "list" /\ last.rsp.code = 200) =>
    LET r == last.rsp.docs
        n == Cardinality(DOMAIN orders)
        inside == {r[i]._id : i \in DOMAIN r}
    IN  /\ Len(r) = IF n <= 300 THEN n ELSE 300
        /\ inside \subseteq DOMAIN orders
        /\ Cardinality(inside) = Len(r)
        /\ \A i \in DOMAIN r : r[i].doc = orders[r[i]._id]
        /\ \A i \in 1..(Len(r) - 1) :
             Stamp(orders, r[i]._id) >= Stamp(orders, r[i + 1]._id)
        /\ \A k \in DOMAIN orders \ inside :
             \A j \in inside : Stamp(orders, k) <= Stamp(orders, j)

\* More than 300 orders are stored and a list was answered with 300.
C13_Witness ==
  /\ last.op = "list"
  /\ last.rsp.code = 200
  /\ Cardinality(DOMAIN orders) > 300
  /\ Len(last.rsp.docs) = 300

\* C14: an authorized replaceAll whose items is no sequence or an empty one
\* is answered 400 and deletes nothing: the menu is as it was.
C14_ReplaceRejects ==
  [][(/\ last.op = "none"
      /\ last'.op = "seed"
      /\ Authorized(last')
      /\ ~last'.body.items.array \/ Len(last'.body.items.elems) = 0)
     => /\ last'.rsp.code = 400
        /\ menu' = menu
        /\ inflight' = inflight]_vars

\* The menu holds an item, and an authorized replaceAll of an empty
\* sequence was answered 400.
C14_Witness ==
  /\ last.op = "seed"
  /\ Authorized(last)
  /\ last.body.items = Array(<<>>)
  /\ last.rsp.code = 400
  /\ menu # <<>>

\* C18: replaceAll is not atomic.  Once it has deleted a menu with available
\* items, and before it inserts its own available items, listAvailable
\* returns an empty menu; and when the insert fails after the delete the
\* menu is left empty.
C18_ReplaceNotAtomic ==
  /\ [][(/\ Len(inflight') > Len(inflight)
          /\ SelectSeq(menu, IsAvailable) # <<>>
          /\ AvailableOf(inflight'[Len(inflight')].body.items.elems) # <<>>)
         => FindAvailable(menu') = {<<>>}]_vars
  /\ []((last.op = "menu" /\ inflight # <<>>) => last.rsp.docs = <<>>)
  /\ []((last.op = "seed" /\ last.rsp.code = 500) => menu = <<>>)

\* A replaceAll of wine is between its delete and its insert, and a
\* listAvailable was answered with an empty menu.
C18_Witness ==
  /\ Len(inflight) = 1
  /\ inflight[1].body.items.elems = <<WineDescriptor>>
  /\ menu = <<>>
  /\ last.op = "menu"
  /\ last.rsp.docs = <<>>

\* C19: when replaceAll requests have run at the same time and all are
\* answered, the menu holds the normalized items of one request, never
\* those of several.
C19_ReplaceSerializable ==
  (inflight = <<>> /\ last.op = "seed" /\ last.rsp.code = 200) =>
    \E b \in RaceService.seedBodies : menu = MenuDocs(b.items.elems)

\* C15: every stored order has a non-empty table and at least one line
\* item, and every stored line item a non-empty trimmed name, a price that
\* is a number >= 0 and a quantity that is an integer > 0.
C15_OrdersWellFormed ==
  \A id \in DOMAIN orders :
    /\ orders[id].table # <<>>
    /\ Len(orders[id].items) > 0
    /\ \A i \in DOMAIN orders[id].items :
         LET it == orders[id].items[i]
         IN  /\ it.name # <<>>
             /\ it.name = Trim(it.name)
             /\ it.price.t \in {"number", "half"}
             /\ ~NonPositive(it.price) \/ it.price = Num(0)
             /\ it.qty.t = "number"
             /\ it.qty.n > 0

\* A request was answered in this step.
Answers(op) == last.op = "none" /\ last'.op = op

====
